---- MODULE Spec2Model ----
(***************************************************************************)
(* Multi-timer engine of the laboratory timer (LabTimer component).        *)
(*                                                                         *)
(* The component exists in two copies: src/src/components/LabTimer.tsx     *)
(* and the copy embedded in src/src/components/MassCalculator.tsx (from    *)
(* line 347).  They differ in how the effects (alarm, notification, toast) *)
(* are guarded against exceptions and in one redundant conjunct of the     *)
(* completion guard; the variable `variant' selects the copy.              *)
(*                                                                         *)
(* A nullable number (number | null) is a sequence: << >> is null and      *)
(* <<v>> is the number v.  Times are milliseconds, as in the source.       *)
(***************************************************************************)
EXTENDS Integers, Sequences, FiniteSets, TLC

\* ------------------------------------------------------------------ bounds
\* The instants the wall clock (Date.now()) takes in the model.
ClockValues == {0, 5, 15, 500, 700, 900, 5000, 10000}
\* Durations handed to setPreset(id, ms).
PresetInputs == {500, 5000}
\* Values the TARGET (MIN) input hands to setTargetDuration(id, minutes).
MinuteInputs == {-1, 0, 1}
\* The values among them that the input's min="0" admits.
ValidMinuteInputs == {0, 1}
\* The instants of the clock when the collection grows beyond one timer.
StoreClockValues == {0, 5000}
\* The inputs of setTargetDuration and setPreset on that collection.
StoreMinuteInputs == {0}
StorePresetInputs == {5000}
\* Texts typed into the "Timer name..." input.
NameInputs == {<< >>, <<" ">>, <<" ", "B", " ">>}
\* Largest number of timers kept in the collection.
MaxTimers == 2
\* The per-segment completion counter saturates here.
MaxFired == 2
\* Largest number of addEntry calls on the calculation history.
MaxEntries == 3

\* --------------------------------------------------------------- constants
Threshold == 10
MsPerMinute == 60 * 1000
MAX_HISTORY_ITEMS == 20

VARIABLES
    timers,               \* useState<Timer[]>: the collection, in display order
    now,                  \* Date.now()
    visibilityState,      \* document.visibilityState
    lastVisibilityState,  \* lastVisibilityState.current
    mounted,              \* FALSE once an exception escaped a state updater
    variant,              \* "LabTimer" or "MassCalculator": which copy runs
    seg,                  \* history, one per timer: completion events emitted
                          \* (fired) and zero-crossing seen (crossed) in the
                          \* current run segment
    last                  \* history: the last operation and its target id

\* The calculation history (hook useCalculationHistory), one instance of the
\* hook per component that calls it.
VARIABLES
    history,              \* per instance: useState<HistoryEntry[]>
    isHydrated,           \* per instance: useState(false)
    storage,              \* localStorage item "chemlab_history": << >> when
                          \* absent, else <<list>>
    live,                 \* history: the entries added and neither deleted
                          \* nor cleared since
    adds                  \* history: the number of addEntry calls so far

histVars == <<history, isHydrated, storage, live, adds>>

vars == <<timers, now, visibilityState, lastVisibilityState, mounted, variant,
          seg, last, histVars>>

\* ----------------------------------------------------------------- helpers
Null == << >>
Some(v) == <<v>>
\* JavaScript truthiness of a number | null: null and 0 are falsy.
Truthy(x) == x # Null /\ x[1] # 0

Max(a, b) == IF a >= b THEN a ELSE b
Abs(a) == IF a >= 0 THEN a ELSE 0 - a

MainTimerName == <<"M", "a", "i", "n", " ", "T", "i", "m", "e", "r">>

InitialTimer ==
    [id |-> "1", name |-> MainTimerName, time |-> 0, isRunning |-> FALSE,
     mode |-> "stopwatch", targetDuration |-> 0, hasCompleted |-> FALSE,
     startedAt |-> Null, pausedAt |-> Null, endTime |-> Null,
     accumulatedTime |-> 0]

NoSeg == [fired |-> 0, crossed |-> FALSE]

Indices == 1..Len(timers)
Ids == {timers[i].id : i \in Indices}

\* -------------------------------------------------------- TimeCalculator
\* Mutant: the remaining time of a countdown is not floored at 0.
calculateCurrentTime_noFloor(timer, t) ==
    IF ~timer.isRunning THEN timer.time
    ELSE IF timer.mode = "stopwatch"
         THEN IF Truthy(timer.startedAt)
              THEN timer.accumulatedTime + (t - timer.startedAt[1])
              ELSE timer.accumulatedTime
         ELSE IF Truthy(timer.endTime)
              THEN timer.endTime[1] - t
              ELSE timer.time

calculateCurrentTime(timer, t) ==
    IF ~timer.isRunning THEN timer.time
    ELSE IF timer.mode = "stopwatch"
         THEN IF Truthy(timer.startedAt)
              THEN timer.accumulatedTime + (t - timer.startedAt[1])
              ELSE timer.accumulatedTime
         ELSE IF Truthy(timer.endTime)
              THEN Max(0, timer.endTime[1] - t)
              ELSE timer.time

\* ---------------------------------------------------- CompletionDetector
\* Mutant: the guard does not look at the current time.
isNewlyComplete_early(timer, t) ==
    /\ timer.isRunning
    /\ timer.mode = "countdown"
    /\ ~timer.hasCompleted
    /\ Truthy(timer.endTime)

\* The guard of the completion branch.  The MassCalculator copy adds the
\* conjunct now >= timer.endTime.
isNewlyComplete(timer, t) ==
    /\ timer.isRunning
    /\ timer.mode = "countdown"
    /\ calculateCurrentTime(timer, t) = 0
    /\ ~timer.hasCompleted
    /\ Truthy(timer.endTime)
    /\ (variant = "MassCalculator" => t >= timer.endTime[1])

\* Mutant: the completion branch only zeroes the display.
completed_onlyZeroes(timer) == [timer EXCEPT !.time = 0]

\* The object returned by the completion branch.
completed(timer) ==
    [timer EXCEPT !.time = 0, !.isRunning = FALSE, !.hasCompleted = TRUE,
                  !.endTime = Null, !.startedAt = Null]

\* TRUE when an exception of the effects sink escapes the completion branch:
\* LabTimer.tsx calls new Notification(...) unguarded, the MassCalculator copy
\* wraps playAlarm and showNotification in try/catch.
sinkThrows(sinkOk) == ~sinkOk /\ variant = "LabTimer"

\* Mutant: the tick commits the current time whatever the difference.
tickStep_always(timer, t) ==
    IF ~timer.isRunning THEN timer
    ELSE IF isNewlyComplete(timer, t) THEN completed(timer)
    ELSE [timer EXCEPT !.time = calculateCurrentTime(timer, t)]

\* One element of the tick's prev.map(...).
tickStep(timer, t) ==
    IF ~timer.isRunning THEN timer
    ELSE IF isNewlyComplete(timer, t) THEN completed(timer)
    ELSE IF Abs(calculateCurrentTime(timer, t) - timer.time) >= Threshold
         THEN [timer EXCEPT !.time = calculateCurrentTime(timer, t)]
         ELSE timer

\* Mutant: the resume pass applies the threshold of the tick.
resumeStep_threshold(timer, t) ==
    IF ~timer.isRunning THEN timer
    ELSE IF isNewlyComplete(timer, t) THEN completed(timer)
    ELSE IF Abs(calculateCurrentTime(timer, t) - timer.time) >= Threshold
         THEN [timer EXCEPT !.time = calculateCurrentTime(timer, t)]
         ELSE timer

\* Mutant: the resume pass recalculates the time and never completes.
resumeStep_noCompletion(timer, t) ==
    IF ~timer.isRunning THEN timer
    ELSE [timer EXCEPT !.time = calculateCurrentTime(timer, t)]

\* One element of the resume pass's prev.map(...).
resumeStep(timer, t) ==
    IF ~timer.isRunning THEN timer
    ELSE IF isNewlyComplete(timer, t) THEN completed(timer)
    ELSE [timer EXCEPT !.time = calculateCurrentTime(timer, t)]

\* The timers for which a pass at time t enters the completion branch.
Completing(t) == {i \in Indices : isNewlyComplete(timers[i], t)}

Min(S) == CHOOSE x \in S : \A y \in S : x <= y

\* History: the id of the first timer a pass at time t completes, "" if none.
firstCompleting(t) ==
    IF Completing(t) = {} THEN "" ELSE timers[Min(Completing(t))].id

\* History after a pass: every timer whose completion branch ran has one more
\* event requested.  When the sink throws, the map stops at the first
\* completing timer, whose alarm was already requested.
segAfterPass(sinkOk) ==
    [i \in Indices |->
        IF /\ i \in Completing(now)
           /\ (sinkThrows(sinkOk) => i = Min(Completing(now)))
        THEN [seg[i] EXCEPT !.fired = IF @ < MaxFired THEN @ + 1 ELSE @]
        ELSE seg[i]]

\* ------------------------------------------------------- SchedulerLoop
\* updateTimers: one requestAnimationFrame callback.
updateTimers(sinkOk) ==
    /\ mounted
    /\ LET throws == sinkThrows(sinkOk) /\ Completing(now) # {}
           updated == [i \in Indices |-> tickStep(timers[i], now)]
           hasChanges == updated # timers
       IN /\ timers' = IF throws THEN timers
                       ELSE IF hasChanges THEN updated ELSE timers
          /\ mounted' = ~throws
    /\ seg' = segAfterPass(sinkOk)
    /\ last' = [op |-> "tick", id |-> firstCompleting(now)]
    /\ UNCHANGED <<now, visibilityState, lastVisibilityState, variant>>
    /\ UNCHANGED histVars

\* ------------------------------------------------------ RecoveryHandler
\* handleVisibilityChange: the visibilitychange event, the document reporting
\* state v.
handleVisibilityChange(v, sinkOk) ==
    /\ mounted
    /\ visibilityState' = v
    /\ lastVisibilityState' = v
    /\ IF v = "visible" /\ lastVisibilityState = "hidden"
       THEN LET throws == sinkThrows(sinkOk) /\ Completing(now) # {}
            IN /\ timers' = IF throws THEN timers
                            ELSE [i \in Indices |-> resumeStep(timers[i], now)]
               /\ mounted' = ~throws
               /\ seg' = segAfterPass(sinkOk)
               /\ last' = [op |-> "resume", id |-> firstCompleting(now)]
       ELSE /\ UNCHANGED <<timers, mounted, seg>>
            /\ last' = [op |-> "visibility", id |-> ""]
    /\ UNCHANGED <<now, variant>>
    /\ UNCHANGED histVars

\* ------------------------------------------------------------ TimerStore
\* The object toggleTimer returns for the timer it addresses.
paused(timer, t) ==
    [timer EXCEPT !.isRunning = FALSE,
                  !.time = calculateCurrentTime(timer, t),
                  !.startedAt = Null,
                  !.pausedAt = Some(t),
                  !.accumulatedTime = IF timer.mode = "stopwatch"
                                      THEN calculateCurrentTime(timer, t)
                                      ELSE 0]

\* Mutant: the start guard is missing.
startRefused_never(timer) == FALSE

startRefused(timer) == timer.mode = "countdown" /\ timer.time = 0

\* Mutant: the end time of a countdown is set one threshold too late.
started_lateEnd(timer, t) ==
    [timer EXCEPT !.isRunning = TRUE,
                  !.hasCompleted = FALSE,
                  !.startedAt = Some(t),
                  !.pausedAt = Null,
                  !.endTime = IF timer.mode = "countdown"
                              THEN Some(t + timer.time + Threshold)
                              ELSE Null]

started(timer, t) ==
    [timer EXCEPT !.isRunning = TRUE,
                  !.hasCompleted = FALSE,
                  !.startedAt = Some(t),
                  !.pausedAt = Null,
                  !.endTime = IF timer.mode = "countdown"
                              THEN Some(t + timer.time)
                              ELSE Null]

toggled(timer, t) ==
    IF timer.isRunning THEN paused(timer, t)
    ELSE IF startRefused(timer) THEN timer
    ELSE started(timer, t)

\* History: the clock, moving from instant s to instant t, reaches the zero
\* point of a running countdown.
reachesZero(timer, s, t) ==
    /\ timer.isRunning
    /\ timer.mode = "countdown"
    /\ timer.endTime # Null
    /\ s < timer.endTime[1]
    /\ t >= timer.endTime[1]

toggleOutcome(timer) ==
    IF timer.isRunning THEN "pause"
    ELSE IF startRefused(timer) THEN "startRefused"
    ELSE "start"

toggleTimer(id) ==
    /\ mounted
    /\ id \in Ids
    /\ timers' = [i \in Indices |->
                    IF timers[i].id # id THEN timers[i]
                    ELSE toggled(timers[i], now)]
    /\ seg' = [i \in Indices |->
                 IF timers[i].id # id \/ toggleOutcome(timers[i]) # "start"
                 THEN seg[i]
                 ELSE NoSeg]
    /\ last' = [op |-> toggleOutcome(
                          timers[Min({i \in Indices : timers[i].id = id})]),
                id |-> id]
    /\ UNCHANGED <<now, visibilityState, lastVisibilityState, mounted, variant>>
    /\ UNCHANGED histVars

\* Mutant: reset leaves isRunning as it was.
reset_keepsRunning(timer) ==
    [timer EXCEPT !.time = IF timer.mode = "countdown"
                           THEN timer.targetDuration ELSE 0,
                  !.hasCompleted = FALSE,
                  !.startedAt = Null,
                  !.pausedAt = Null,
                  !.endTime = Null,
                  !.accumulatedTime = 0]

\* The objects the user operations return for the timer they address.
reset(timer) ==
    [timer EXCEPT !.time = IF timer.mode = "countdown"
                           THEN timer.targetDuration ELSE 0,
                  !.isRunning = FALSE,
                  !.hasCompleted = FALSE,
                  !.startedAt = Null,
                  !.pausedAt = Null,
                  !.endTime = Null,
                  !.accumulatedTime = 0]

zeroed(timer) ==
    [timer EXCEPT !.time = 0,
                  !.isRunning = FALSE,
                  !.hasCompleted = FALSE,
                  !.startedAt = Null,
                  !.pausedAt = Null,
                  !.endTime = Null,
                  !.accumulatedTime = 0]

\* Mutant: the mode switch keeps accumulatedTime.
modeToggled_keepsAccumulated(timer) ==
    LET newMode == IF timer.mode = "stopwatch" THEN "countdown"
                   ELSE "stopwatch"
    IN [timer EXCEPT !.mode = newMode,
                     !.time = IF newMode = "countdown"
                              THEN timer.targetDuration ELSE 0,
                     !.isRunning = FALSE,
                     !.hasCompleted = FALSE,
                     !.startedAt = Null,
                     !.pausedAt = Null,
                     !.endTime = Null]

\* Mutant: the mode switch keeps the time shown.
modeToggled_keepsTime(timer) ==
    LET newMode == IF timer.mode = "stopwatch" THEN "countdown"
                   ELSE "stopwatch"
    IN [timer EXCEPT !.mode = newMode,
                     !.isRunning = FALSE,
                     !.hasCompleted = FALSE,
                     !.startedAt = Null,
                     !.pausedAt = Null,
                     !.endTime = Null,
                     !.accumulatedTime = 0]

\* Mutant: the mode switch keeps hasCompleted.
modeToggled_keepsCompleted(timer) ==
    LET newMode == IF timer.mode = "stopwatch" THEN "countdown"
                   ELSE "stopwatch"
    IN [timer EXCEPT !.mode = newMode,
                     !.time = IF newMode = "countdown"
                              THEN timer.targetDuration ELSE 0,
                     !.isRunning = FALSE,
                     !.startedAt = Null,
                     !.pausedAt = Null,
                     !.endTime = Null,
                     !.accumulatedTime = 0]

modeToggled(timer) ==
    LET newMode == IF timer.mode = "stopwatch" THEN "countdown"
                   ELSE "stopwatch"
    IN [timer EXCEPT !.mode = newMode,
                     !.time = IF newMode = "countdown"
                              THEN timer.targetDuration ELSE 0,
                     !.isRunning = FALSE,
                     !.hasCompleted = FALSE,
                     !.startedAt = Null,
                     !.pausedAt = Null,
                     !.endTime = Null,
                     !.accumulatedTime = 0]

withTargetDuration(timer, minutes) ==
    [timer EXCEPT !.targetDuration = minutes * MsPerMinute,
                  !.time = minutes * MsPerMinute,
                  !.hasCompleted = FALSE,
                  !.startedAt = Null,
                  !.pausedAt = Null,
                  !.endTime = Null,
                  !.accumulatedTime = 0]

\* Mutant: the preset becomes the target duration in either mode.
withPreset_alwaysTarget(timer, ms) ==
    [timer EXCEPT !.time = ms,
                  !.isRunning = FALSE,
                  !.hasCompleted = FALSE,
                  !.startedAt = Null,
                  !.pausedAt = Null,
                  !.endTime = Null,
                  !.accumulatedTime = 0,
                  !.targetDuration = ms]

withPreset(timer, ms) ==
    [timer EXCEPT !.time = ms,
                  !.isRunning = FALSE,
                  !.hasCompleted = FALSE,
                  !.startedAt = Null,
                  !.pausedAt = Null,
                  !.endTime = Null,
                  !.accumulatedTime = 0,
                  !.targetDuration = IF timer.mode = "countdown"
                                     THEN ms ELSE @]

resetTimer(id) ==
    /\ mounted
    /\ id \in Ids
    /\ timers' = [i \in Indices |->
                    IF timers[i].id = id THEN reset(timers[i]) ELSE timers[i]]
    /\ seg' = [i \in Indices |->
                 IF timers[i].id = id THEN [seg[i] EXCEPT !.crossed = FALSE]
                 ELSE seg[i]]
    /\ last' = [op |-> "reset", id |-> id]
    /\ UNCHANGED <<now, visibilityState, lastVisibilityState, mounted, variant>>
    /\ UNCHANGED histVars

zeroTimer(id) ==
    /\ mounted
    /\ id \in Ids
    /\ timers' = [i \in Indices |->
                    IF timers[i].id = id THEN zeroed(timers[i]) ELSE timers[i]]
    /\ seg' = [i \in Indices |->
                 IF timers[i].id = id THEN [seg[i] EXCEPT !.crossed = FALSE]
                 ELSE seg[i]]
    /\ last' = [op |-> "zero", id |-> id]
    /\ UNCHANGED <<now, visibilityState, lastVisibilityState, mounted, variant>>
    /\ UNCHANGED histVars

toggleMode(id) ==
    /\ mounted
    /\ id \in Ids
    /\ timers' = [i \in Indices |->
                    IF timers[i].id # id THEN timers[i]
                    ELSE modeToggled(timers[i])]
    /\ seg' = [i \in Indices |->
                 IF timers[i].id = id THEN [seg[i] EXCEPT !.crossed = FALSE]
                 ELSE seg[i]]
    /\ last' = [op |-> "toggleMode", id |-> id]
    /\ UNCHANGED <<now, visibilityState, lastVisibilityState, mounted, variant>>
    /\ UNCHANGED histVars

\* The TARGET (MIN) input is rendered for countdown timers only.
setTargetDuration(id, minutes) ==
    /\ mounted
    /\ id \in Ids
    /\ \E i \in Indices : timers[i].id = id /\ timers[i].mode = "countdown"
    /\ timers' = [i \in Indices |->
                    IF timers[i].id = id
                    THEN withTargetDuration(timers[i], minutes)
                    ELSE timers[i]]
    /\ seg' = [i \in Indices |->
                 IF timers[i].id = id THEN [seg[i] EXCEPT !.crossed = FALSE]
                 ELSE seg[i]]
    /\ last' = [op |-> "setTargetDuration", id |-> id]
    /\ UNCHANGED <<now, visibilityState, lastVisibilityState, mounted, variant>>
    /\ UNCHANGED histVars

setPreset(id, ms) ==
    /\ mounted
    /\ id \in Ids
    /\ timers' = [i \in Indices |->
                    IF timers[i].id = id THEN withPreset(timers[i], ms)
                    ELSE timers[i]]
    /\ seg' = [i \in Indices |->
                 IF timers[i].id = id THEN [seg[i] EXCEPT !.crossed = FALSE]
                 ELSE seg[i]]
    /\ last' = [op |-> "setPreset", id |-> id]
    /\ UNCHANGED <<now, visibilityState, lastVisibilityState, mounted, variant>>
    /\ UNCHANGED histVars

\* Whitespace as String.prototype.trim() sees it.
IsSpace(c) == c = " "

RECURSIVE TrimStart(_)
TrimStart(str) ==
    IF str # << >> /\ IsSpace(Head(str)) THEN TrimStart(Tail(str)) ELSE str

RECURSIVE TrimEnd(_)
TrimEnd(str) ==
    IF str # << >> /\ IsSpace(str[Len(str)])
    THEN TrimEnd(SubSeq(str, 1, Len(str) - 1))
    ELSE str

\* Mutant: the name is taken as typed.
trim_identity(str) == str

trim(str) == TrimEnd(TrimStart(str))

\* Date.now().toString()
newId(t) == ToString(t)

newTimer(name, t) ==
    [id |-> newId(t), name |-> trim(name), time |-> 0, isRunning |-> FALSE,
     mode |-> "stopwatch", targetDuration |-> 0, hasCompleted |-> FALSE,
     startedAt |-> Null, pausedAt |-> Null, endTime |-> Null,
     accumulatedTime |-> 0]

addTimer(name) ==
    /\ mounted
    /\ Len(timers) < MaxTimers
    /\ IF trim(name) # << >>
       THEN /\ timers' = Append(timers, newTimer(name, now))
            /\ seg' = Append(seg, NoSeg)
            /\ last' = [op |-> "add", id |-> newId(now)]
       ELSE /\ UNCHANGED <<timers, seg>>
            /\ last' = [op |-> "addRefused", id |-> ""]
    /\ UNCHANGED <<now, visibilityState, lastVisibilityState, mounted, variant>>
    /\ UNCHANGED histVars

\* The indices that survive prev.filter(timer => timer.id !== id), in order.
RECURSIVE keep(_, _)
keep(seq, id) ==
    IF seq = << >> THEN << >>
    ELSE IF timers[Head(seq)].id # id THEN <<Head(seq)>> \o keep(Tail(seq), id)
    ELSE keep(Tail(seq), id)

\* The delete button is rendered only while timers.length > 1.
deleteTimer(id) ==
    /\ mounted
    /\ id \in Ids
    /\ Len(timers) > 1
    /\ LET kept == keep([i \in Indices |-> i], id)
       IN /\ timers' = [k \in 1..Len(kept) |-> timers[kept[k]]]
          /\ seg' = [k \in 1..Len(kept) |-> seg[kept[k]]]
    /\ last' = [op |-> "delete", id |-> id]
    /\ UNCHANGED <<now, visibilityState, lastVisibilityState, mounted, variant>>
    /\ UNCHANGED histVars

\* ------------------------------------------------------------- the clock
\* The wall clock moves forward to a later instant t.
advance(t) ==
    /\ mounted
    /\ t > now
    /\ now' = t
    /\ seg' = [i \in Indices |->
                 [seg[i] EXCEPT !.crossed = @ \/ reachesZero(timers[i], now, t)]]
    /\ last' = [op |-> "advance", id |-> ""]
    /\ UNCHANGED <<timers, visibilityState, lastVisibilityState, mounted,
                   variant>>
    /\ UNCHANGED histVars

\* ---------------------------------------------------- calculation history
\* The components that call useCalculationHistory(), each with its own state:
\* the two calculators take addEntry, the Home page takes history,
\* clearHistory and deleteEntry.
Instances == {"MassCalculator", "DilutionCalculator", "Home"}
Adders == {"MassCalculator", "DilutionCalculator"}

timerVars == <<timers, visibilityState, lastVisibilityState, mounted, variant,
               seg>>

\* The type of the entries a calculator records.
entryType(inst) == IF inst = "MassCalculator" THEN "mass" ELSE "dilution"

\* localStorage.getItem("chemlab_history"), parsed; [] when absent.
loadHistoryFromStorage == IF storage # Null THEN storage[1] ELSE << >>

\* The effect "save history to localStorage whenever it changes", run after a
\* render with history h and isHydrated hyd: the item it leaves in storage.
saveEffect(h, hyd) == IF hyd /\ Len(h) > 0 THEN Some(h) ELSE storage

\* updated.slice(0, n)
slice(seq, n) == SubSeq(seq, 1, IF Len(seq) < n THEN Len(seq) ELSE n)

newEntry(inst, t) ==
    [id |-> ToString(t), type |-> entryType(inst), timestamp |-> t]

\* The mount effect of one instance: load, then the save effect.
hydrate(inst) ==
    /\ ~isHydrated[inst]
    /\ history' = [history EXCEPT ![inst] = loadHistoryFromStorage]
    /\ isHydrated' = [isHydrated EXCEPT ![inst] = TRUE]
    /\ storage' = saveEffect(loadHistoryFromStorage, TRUE)
    /\ last' = [op |-> "hydrate", id |-> inst]
    /\ UNCHANGED <<live, adds, now, timerVars>>

addEntry(inst) ==
    /\ isHydrated[inst]
    /\ adds < MaxEntries
    /\ LET updated == slice(<<newEntry(inst, now)>> \o history[inst],
                            MAX_HISTORY_ITEMS)
       IN /\ history' = [history EXCEPT ![inst] = updated]
          /\ storage' = saveEffect(updated, TRUE)
    /\ live' = live \cup {newEntry(inst, now)}
    /\ adds' = adds + 1
    /\ last' = [op |-> "addEntry", id |-> inst]
    /\ UNCHANGED <<isHydrated, now, timerVars>>

\* setHistory([]) and removeItem; the save effect then finds an empty list.
clearHistory(inst) ==
    /\ isHydrated[inst]
    /\ history' = [history EXCEPT ![inst] = << >>]
    /\ storage' = Null
    /\ live' = {}
    /\ last' = [op |-> "clearHistory", id |-> inst]
    /\ UNCHANGED <<isHydrated, adds, now, timerVars>>

\* The delete button of an entry the instance shows.
deleteEntry(inst, id) ==
    /\ isHydrated[inst]
    /\ \E k \in 1..Len(history[inst]) : history[inst][k].id = id
    /\ LET filtered == SelectSeq(history[inst], LAMBDA entry : entry.id # id)
       IN /\ history' = [history EXCEPT ![inst] = filtered]
          /\ storage' = saveEffect(filtered, TRUE)
    /\ live' = {entry \in live : entry.id # id}
    /\ last' = [op |-> "deleteEntry", id |-> inst]
    /\ UNCHANGED <<isHydrated, adds, now, timerVars>>

\* The page is loaded again: every instance starts from useState([]) and
\* useState(false); localStorage stays.
reload ==
    /\ \E inst \in Instances : isHydrated[inst]
    /\ history' = [inst \in Instances |-> << >>]
    /\ isHydrated' = [inst \in Instances |-> FALSE]
    /\ last' = [op |-> "reload", id |-> ""]
    /\ UNCHANGED <<storage, live, adds, now, timerVars>>

\* --------------------------------------------------------- specifications
Init ==
    /\ history = [inst \in Instances |-> << >>]
    /\ isHydrated = [inst \in Instances |-> FALSE]
    /\ storage = Null
    /\ live = {}
    /\ adds = 0
    /\ timers = <<InitialTimer>>
    /\ now = 0
    /\ visibilityState = "visible"
    /\ lastVisibilityState = "visible"
    /\ mounted = TRUE
    /\ variant \in {"LabTimer", "MassCalculator"}
    /\ seg = <<NoSeg>>
    /\ last = [op |-> "init", id |-> ""]

\* The user operations on the timers of the collection, the TARGET (MIN)
\* input delivering a value of `minutes' and the presets one of `presets'.
UserOp(minutes, presets) ==
    \/ \E id \in Ids : toggleTimer(id)
    \/ \E id \in Ids : resetTimer(id)
    \/ \E id \in Ids : zeroTimer(id)
    \/ \E id \in Ids : toggleMode(id)
    \/ \E id \in Ids, m \in minutes : setTargetDuration(id, m)
    \/ \E id \in Ids, ms \in presets : setPreset(id, ms)

\* The two drivers with an effects sink whose calls return.
Tick == updateTimers(TRUE)
VisibilityChange == \E v \in {"visible", "hidden"} : handleVisibilityChange(v, TRUE)

\* The two drivers with an effects sink that throws.
TickSinkFails == updateTimers(FALSE)
VisibilityChangeSinkFails ==
    \E v \in {"visible", "hidden"} : handleVisibilityChange(v, FALSE)

Advance == \E t \in ClockValues : advance(t)
AdvanceStore == \E t \in StoreClockValues : advance(t)

\* Spec: the engine on the initial timer, the effects sink working.
Next ==
    \/ UserOp(MinuteInputs, PresetInputs)
    \/ Tick
    \/ VisibilityChange
    \/ Advance

Spec == Init /\ [][Next]_vars

\* SpecValid: Spec with the TARGET (MIN) input delivering valid values only.
NextValid ==
    \/ UserOp(ValidMinuteInputs, PresetInputs)
    \/ Tick
    \/ VisibilityChange
    \/ Advance

SpecValid == Init /\ [][NextValid]_vars

\* SpecSink: SpecValid with an effects sink that may throw.
NextSink ==
    \/ UserOp(ValidMinuteInputs, PresetInputs)
    \/ Tick
    \/ VisibilityChange
    \/ TickSinkFails
    \/ VisibilityChangeSinkFails
    \/ Advance

SpecSink == Init /\ [][NextSink]_vars

\* SpecStore: the collection with timers added and deleted, on a coarse clock.
NextStore ==
    \/ UserOp(StoreMinuteInputs, StorePresetInputs)
    \/ Tick
    \/ VisibilityChange
    \/ \E name \in NameInputs : addTimer(name)
    \/ \E id \in Ids : deleteTimer(id)
    \/ AdvanceStore

SpecStore == Init /\ [][NextStore]_vars

\* SpecLive: the engine on the initial timer with a scheduler that keeps
\* ticking (requestAnimationFrame re-arms itself in every callback) and a
\* clock that keeps advancing.
NextLive ==
    \/ UserOp(StoreMinuteInputs, StorePresetInputs)
    \/ Tick
    \/ VisibilityChange
    \/ AdvanceStore

SpecLive ==
    Init /\ [][NextLive]_vars /\ WF_vars(Tick) /\ WF_vars(AdvanceStore)

\* SpecHistory: the calculation history of the three components.
EntryIds == {ToString(t) : t \in StoreClockValues}

NextHistory ==
    \/ \E inst \in Instances : hydrate(inst)
    \/ \E inst \in Adders : addEntry(inst)
    \/ clearHistory("Home")
    \/ \E id \in EntryIds : deleteEntry("Home", id)
    \/ reload
    \/ AdvanceStore

SpecHistory == Init /\ [][NextHistory]_vars

\* ================================================================= claims
PassOps == {"tick", "resume"}
ToggleOps == {"start", "startRefused", "pause"}

\* The step just taken is the operation op addressed to timer i.
Addressed(op, i) == last'.op = op /\ last'.id = timers[i].id

\* C1: for any single timer, at most one completion event is emitted in a run
\* segment, and once the completion transition has been applied a later tick
\* or resume pass emits nothing for that timer and changes nothing of it.
C1_AtMostOneCompletion ==
    /\ [](\A i \in Indices : seg[i].fired <= 1)
    /\ [][\A i \in Indices :
            (last'.op \in PassOps /\ timers[i].hasCompleted)
               => (timers'[i] = timers[i] /\ seg'[i] = seg[i])]_vars

\* A pass that completes nothing has run over a timer completed earlier.
C1_Witness ==
    \E i \in Indices :
        /\ timers[i].hasCompleted
        /\ seg[i].fired = 1
        /\ last.op \in PassOps
        /\ last.id = ""

\* C2: a countdown segment whose zero point the clock has reached yields
\* exactly one completion event and hasCompleted, whatever the order of ticks,
\* resume passes and a pause after the zero-crossing: once such a timer has
\* stopped, its event has been emitted and hasCompleted is true.
C2_ExactlyOnePerCrossedSegment ==
    \A i \in Indices :
        (seg[i].crossed /\ ~timers[i].isRunning)
            => (seg[i].fired = 1 /\ timers[i].hasCompleted)

\* The timer of the recovery scenario: a countdown of 5000 started at 0 that
\* no pass has recomputed.
C3_Scenario(timer) ==
    /\ timer.mode = "countdown"
    /\ timer.isRunning
    /\ timer.targetDuration = 5000
    /\ timer.time = 5000
    /\ timer.startedAt = Some(0)
    /\ timer.endTime = Some(5000)

\* C3: recovery after a long gap: a countdown of 5000 started at 0 and not
\* recomputed until a resume signal at 10000 gets exactly one completion
\* event from the resume pass, which leaves time 0, isRunning false and
\* hasCompleted true; no later tick or visibility event emits another one.
C3_RecoveryAfterGap ==
    /\ [][\A i \in Indices :
            (last'.op = "resume" /\ now = 10000 /\ C3_Scenario(timers[i])
                /\ seg[i].fired = 0)
               => /\ timers'[i].time = 0
                  /\ ~timers'[i].isRunning
                  /\ timers'[i].hasCompleted
                  /\ seg'[i].fired = 1]_vars
    /\ [][\A i \in Indices :
            (timers[i].hasCompleted
                /\ last'.op \in PassOps \cup {"visibility"})
               => seg'[i].fired = seg[i].fired]_vars

\* The resume pass at 10000 has completed the 5000 countdown.
C3_Witness ==
    \E i \in Indices :
        /\ last.op = "resume"
        /\ last.id = timers[i].id
        /\ now = 10000
        /\ timers[i].targetDuration = 5000
        /\ timers[i].hasCompleted
        /\ timers[i].time = 0
        /\ seg[i].fired = 1

\* C4: a failure of the effects sink while a completion is processed neither
\* rolls the completion back nor duplicates it: every pass that finds a timer
\* newly complete commits isRunning false, hasCompleted true and time 0 for
\* it, and no segment gets a second event.
C4_SinkFailureHarmless ==
    /\ [](\A i \in Indices : seg[i].fired <= 1)
    /\ [][\A i \in Indices :
            (last'.op \in PassOps /\ isNewlyComplete(timers[i], now))
               => /\ ~timers'[i].isRunning
                  /\ timers'[i].hasCompleted
                  /\ timers'[i].time = 0]_vars

\* C5: while isRunning exactly one of startedAt/endTime is present, startedAt
\* for a stopwatch and endTime for a countdown; while not running both are
\* absent.
C5_TimestampsMatchRunning ==
    \A i \in Indices :
        IF timers[i].isRunning
        THEN IF timers[i].mode = "stopwatch"
             THEN timers[i].startedAt # Null /\ timers[i].endTime = Null
             ELSE timers[i].endTime # Null /\ timers[i].startedAt = Null
        ELSE timers[i].startedAt = Null /\ timers[i].endTime = Null

ClearingOps ==
    {"reset", "zero", "toggleMode", "setPreset", "setTargetDuration", "start"}

\* C6: hasCompleted implies not running and countdown mode; hasCompleted is
\* set only by the completion transition of a pass and is false after reset,
\* zero, toggleMode, setPreset, setTargetDuration and a successful start.
C6_HasCompleted ==
    /\ [](\A i \in Indices :
            timers[i].hasCompleted
               => (~timers[i].isRunning /\ timers[i].mode = "countdown"))
    /\ [][\A i \in Indices :
            /\ (timers'[i].hasCompleted /\ ~timers[i].hasCompleted)
                  => (last'.op \in PassOps /\ isNewlyComplete(timers[i], now))
            /\ (\E op \in ClearingOps : Addressed(op, i))
                  => ~timers'[i].hasCompleted]_vars

\* A completed timer has been reset: its completion flag is cleared.
C6_Witness ==
    \E i \in Indices :
        /\ last.op \in ClearingOps
        /\ last.id = timers[i].id
        /\ seg[i].fired = 1
        /\ ~timers[i].hasCompleted

\* C7: every timer's time is >= 0 in every reachable state.
C7_TimeNonNegative == \A i \in Indices : timers[i].time >= 0

\* C8: start on a non-running timer is refused only for a countdown with
\* targetDuration 0; any other non-running timer gets isRunning true,
\* hasCompleted false and, if a countdown, endTime = now + time.
C8_StartRefusedOnlyWithoutTarget ==
    [][\A i \in Indices :
         ((\E op \in ToggleOps : Addressed(op, i)) /\ ~timers[i].isRunning)
            => IF timers[i].mode = "countdown" /\ timers[i].targetDuration = 0
               THEN timers'[i] = timers[i]
               ELSE /\ timers'[i].isRunning
                    /\ ~timers'[i].hasCompleted
                    /\ (timers[i].mode = "countdown"
                          => timers'[i].endTime = Some(now + timers[i].time))
      ]_vars

\* C9: start at time now on a non-running stopwatch sets startedAt = now and
\* accumulatedTime = the time shown before the start, so that the current
\* time right after the start equals the time shown before it.
C9_StopwatchContinues ==
    [][\A i \in Indices :
         ((\E op \in ToggleOps : Addressed(op, i))
             /\ ~timers[i].isRunning /\ timers[i].mode = "stopwatch")
            => /\ timers'[i].startedAt = Some(now)
               /\ timers'[i].accumulatedTime = timers[i].time
               /\ calculateCurrentTime(timers'[i], now) = timers[i].time
      ]_vars

IdleOps == {"reset", "zero", "toggleMode", "setPreset", "setTargetDuration"}

\* A timer is paused: pause is the only operation that leaves pausedAt set.
isPaused(timer) == ~timer.isRunning /\ timer.pausedAt # Null

\* C11: each of reset, zero, toggleMode, setPreset and setTargetDuration,
\* applied to a timer in any state, returns it to Idle: afterwards isRunning
\* and hasCompleted are false and startedAt and endTime are absent.
C11_OpsReturnToIdle ==
    [][\A i \in Indices :
         (\E op \in IdleOps : Addressed(op, i))
            => /\ ~timers'[i].isRunning
               /\ ~timers'[i].hasCompleted
               /\ timers'[i].startedAt = Null
               /\ timers'[i].endTime = Null
      ]_vars

\* C12: setTargetDuration with minutes <= 0 is rejected and leaves the timer
\* unchanged; only a positive value changes targetDuration.
C12_NonPositiveTargetRejected ==
    [][\A id \in Ids : \A m \in MinuteInputs :
         (m <= 0 /\ setTargetDuration(id, m)) => timers' = timers
      ]_vars

\* C13: pause/resume round trip of a stopwatch: a pause commits the time of
\* the earlier segments plus the time since the start (started at 0 and paused
\* at 500 it shows 500), and after a resume the current time continues from
\* the time shown while paused, the time spent paused not counted (resumed at
\* 700 showing 500, the current time at 900 is 700).
C13_PauseResumeRoundTrip ==
    [][\A i \in Indices :
         /\ (Addressed("pause", i) /\ timers[i].mode = "stopwatch"
                /\ timers[i].startedAt # Null)
               => timers'[i].time =
                     timers[i].accumulatedTime + (now - timers[i].startedAt[1])
         /\ (Addressed("start", i) /\ timers[i].mode = "stopwatch"
                /\ isPaused(timers[i]))
               => \A t \in ClockValues :
                     t >= now => calculateCurrentTime(timers'[i], t)
                                    = timers[i].time + (t - now)
      ]_vars

\* C14: pause at time now of a running timer commits time = the current time,
\* sets isRunning false, sets accumulatedTime = time for a stopwatch and
\* leaves startedAt and endTime absent; toggleTimer on a non-running timer
\* never takes the pausing branch.
C14_PauseCommits ==
    [][\A i \in Indices :
         /\ Addressed("pause", i)
               => /\ timers[i].isRunning
                  /\ timers'[i].time = calculateCurrentTime(timers[i], now)
                  /\ ~timers'[i].isRunning
                  /\ (timers[i].mode = "stopwatch"
                        => timers'[i].accumulatedTime = timers'[i].time)
                  /\ timers'[i].startedAt = Null
                  /\ timers'[i].endTime = Null
         /\ ((\E op \in ToggleOps : Addressed(op, i)) /\ ~timers[i].isRunning)
               => ~Addressed("pause", i)
      ]_vars

\* The completion guard as the claim words it.
C15_Guard(timer, t) ==
    /\ timer.isRunning
    /\ timer.mode = "countdown"
    /\ ~timer.hasCompleted
    /\ timer.endTime # Null
    /\ calculateCurrentTime(timer, t) = 0
    /\ t >= timer.endTime[1]

\* C15: a tick or resume pass applies the completion transition to a timer if
\* and only if the timer is a running countdown with hasCompleted false,
\* endTime present, current time 0 and now >= endTime; the transition sets
\* isRunning false, hasCompleted true, endTime and startedAt absent and time 0
\* in one commit and changes no other field; a pass over any other timer
\* changes at most its time and emits no completion event.
C15_CompletionIffGuard ==
    [][\A i \in Indices :
         last'.op \in PassOps
            => IF C15_Guard(timers[i], now)
               THEN /\ timers'[i] = [timers[i] EXCEPT !.isRunning = FALSE,
                                                      !.hasCompleted = TRUE,
                                                      !.endTime = Null,
                                                      !.startedAt = Null,
                                                      !.time = 0]
                    /\ seg'[i].fired = seg[i].fired + 1
               ELSE /\ timers'[i] = [timers[i] EXCEPT !.time = timers'[i].time]
                    /\ seg'[i].fired = seg[i].fired
      ]_vars

\* A tick has just completed a countdown whose target was set.
C15_Witness ==
    \E i \in Indices :
        /\ last.op = "tick"
        /\ last.id = timers[i].id
        /\ timers[i].mode = "countdown"
        /\ timers[i].targetDuration > 0
        /\ timers[i].hasCompleted
        /\ ~timers[i].isRunning
        /\ timers[i].time = 0
        /\ timers[i].endTime = Null
        /\ timers[i].startedAt = Null

\* C16: for any timer in any state, toggleMode switches mode to the other
\* mode and leaves isRunning false, hasCompleted false, startedAt and endTime
\* absent, accumulatedTime 0, and time 0 if the new mode is stopwatch or
\* targetDuration if it is countdown; no pass changes the timer afterwards,
\* so a running session is not carried over the switch.
C16_ToggleModeStops ==
    [][\A i \in Indices :
         Addressed("toggleMode", i)
            => /\ timers'[i].mode # timers[i].mode
               /\ timers'[i].mode \in {"stopwatch", "countdown"}
               /\ ~timers'[i].isRunning
               /\ ~timers'[i].hasCompleted
               /\ timers'[i].startedAt = Null
               /\ timers'[i].endTime = Null
               /\ timers'[i].accumulatedTime = 0
               /\ timers'[i].time = IF timers'[i].mode = "stopwatch" THEN 0
                                    ELSE timers[i].targetDuration
               /\ timers'[i].targetDuration = timers[i].targetDuration
               /\ \A t \in ClockValues :
                     /\ tickStep(timers'[i], t) = timers'[i]
                     /\ resumeStep(timers'[i], t) = timers'[i]
      ]_vars

\* A countdown that had completed was switched to stopwatch: it shows 0 and
\* keeps its target.
C16_Witness ==
    \E i \in Indices :
        /\ last.op = "toggleMode"
        /\ last.id = timers[i].id
        /\ timers[i].mode = "stopwatch"
        /\ timers[i].targetDuration > 0
        /\ timers[i].time = 0
        /\ seg[i].fired = 1

\* C17: reset applied to a timer in any state stops it without committing the
\* elapsed time: afterwards time is targetDuration for a countdown and 0 for a
\* stopwatch, hasCompleted is false, accumulatedTime is 0, mode and
\* targetDuration are unchanged, and a later tick or resume pass does not
\* alter the timer.
C17_ResetStops ==
    [][\A i \in Indices :
         Addressed("reset", i)
            => /\ ~timers'[i].isRunning
               /\ timers'[i].time = IF timers[i].mode = "countdown"
                                    THEN timers[i].targetDuration ELSE 0
               /\ ~timers'[i].hasCompleted
               /\ timers'[i].accumulatedTime = 0
               /\ timers'[i].mode = timers[i].mode
               /\ timers'[i].targetDuration = timers[i].targetDuration
               /\ \A t \in ClockValues :
                     /\ tickStep(timers'[i], t) = timers'[i]
                     /\ resumeStep(timers'[i], t) = timers'[i]
      ]_vars

\* A countdown that had completed was reset: it shows its whole target again.
C17_Witness ==
    \E i \in Indices :
        /\ last.op = "reset"
        /\ last.id = timers[i].id
        /\ timers[i].mode = "countdown"
        /\ timers[i].targetDuration > 0
        /\ timers[i].time = timers[i].targetDuration
        /\ seg[i].fired = 1
        /\ ~timers[i].isRunning

\* C18: setPreset(id, ms) applied to a timer in any state sets time = ms,
\* sets targetDuration = ms if and only if the timer is a countdown (a
\* stopwatch keeps its targetDuration), stops the timer, clears hasCompleted
\* and the timestamps, and leaves mode unchanged.
C18_PresetApplied ==
    [][\A id \in Ids : \A ms \in PresetInputs :
         setPreset(id, ms)
            => \A i \in Indices :
                  timers[i].id = id
                     => /\ timers'[i].time = ms
                        /\ timers'[i].targetDuration =
                              IF timers[i].mode = "countdown" THEN ms
                              ELSE timers[i].targetDuration
                        /\ ~timers'[i].isRunning
                        /\ ~timers'[i].hasCompleted
                        /\ timers'[i].startedAt = Null
                        /\ timers'[i].endTime = Null
                        /\ timers'[i].mode = timers[i].mode
      ]_vars

\* A preset was applied to a stopwatch that keeps a different target.
C18_Witness ==
    \E i \in Indices :
        /\ last.op = "setPreset"
        /\ last.id = timers[i].id
        /\ timers[i].mode = "stopwatch"
        /\ timers[i].time \in PresetInputs
        /\ timers[i].targetDuration > 0
        /\ timers[i].targetDuration # timers[i].time

\* The text has a character that is not whitespace.
NonEmptyTrimmed(name) == \E k \in 1..Len(name) : name[k] # " "

\* C19: add(name) with a name that is non-empty after trimming appends
\* exactly one new timer, a stopwatch with time 0, targetDuration 0,
\* accumulatedTime 0, not running, not completed and without timestamps, and
\* leaves the existing timers unchanged; with a name that is empty after
\* trimming it leaves the collection unchanged.
C19_AddAppendsOne ==
    [][\A name \in NameInputs :
         addTimer(name)
            => IF NonEmptyTrimmed(name)
               THEN /\ Len(timers') = Len(timers) + 1
                    /\ \A i \in Indices : timers'[i] = timers[i]
                    /\ LET new == timers'[Len(timers')]
                       IN /\ new.mode = "stopwatch"
                          /\ new.time = 0
                          /\ new.targetDuration = 0
                          /\ new.accumulatedTime = 0
                          /\ ~new.isRunning
                          /\ ~new.hasCompleted
                          /\ new.startedAt = Null
                          /\ new.pausedAt = Null
                          /\ new.endTime = Null
               ELSE timers' = timers
      ]_vars

\* A timer was added next to a running one.
C19_Witness ==
    /\ last.op = "add"
    /\ Len(timers) = 2
    /\ timers[1].isRunning
    /\ timers[2].id = last.id
    /\ timers[2].name = <<"B">>
    /\ timers[2].mode = "stopwatch"
    /\ ~timers[2].isRunning

\* C20: timer ids are unique and immutable: in every reachable state the
\* timers of the collection have pairwise distinct ids, and no operation
\* other than creation assigns an id (a step that keeps the length keeps
\* every id, an add keeps the ids of the existing timers, a delete leaves
\* only ids that were there).
C20_IdsUniqueImmutable ==
    /\ [](\A i, j \in Indices : i # j => timers[i].id # timers[j].id)
    /\ [][/\ Len(timers') = Len(timers)
              => \A i \in Indices : timers'[i].id = timers[i].id
          /\ Len(timers') > Len(timers)
              => \A i \in Indices : timers'[i].id = timers[i].id
          /\ Len(timers') < Len(timers)
              => \A k \in 1..Len(timers') : timers'[k].id \in Ids]_vars

\* C21: for any running countdown with endTime = e and every clock value t,
\* the current time is max(0, e - t): never negative and non-increasing as t
\* increases.
C21_CountdownCurrentTime ==
    \A i \in Indices :
        (timers[i].isRunning /\ timers[i].mode = "countdown"
            /\ timers[i].endTime # Null)
           => \A t \in ClockValues :
                 /\ calculateCurrentTime(timers[i], t)
                       = Max(0, timers[i].endTime[1] - t)
                 /\ calculateCurrentTime(timers[i], t) >= 0
                 /\ \A u \in ClockValues :
                       u >= t => calculateCurrentTime(timers[i], u)
                                    <= calculateCurrentTime(timers[i], t)

\* A countdown is still running after the clock has passed its end time.
C21_Witness ==
    \E i \in Indices :
        /\ timers[i].isRunning
        /\ timers[i].mode = "countdown"
        /\ timers[i].endTime # Null
        /\ timers[i].endTime[1] > 0
        /\ now > timers[i].endTime[1]

\* C22: for any running stopwatch with startedAt = s and accumulatedTime = a
\* and every clock value t >= s (s = 0 included), the current time is
\* a + (t - s), non-decreasing as t increases; for a timer that is not running
\* the current time is the time shown.
C22_StopwatchCurrentTime ==
    \A i \in Indices :
        /\ (timers[i].isRunning /\ timers[i].mode = "stopwatch"
               /\ timers[i].startedAt # Null)
              => \A t \in ClockValues :
                    t >= timers[i].startedAt[1]
                       => /\ calculateCurrentTime(timers[i], t)
                                = timers[i].accumulatedTime
                                     + (t - timers[i].startedAt[1])
                          /\ \A u \in ClockValues :
                                u >= t => calculateCurrentTime(timers[i], u)
                                           >= calculateCurrentTime(timers[i], t)
        /\ ~timers[i].isRunning
              => \A t \in ClockValues :
                    calculateCurrentTime(timers[i], t) = timers[i].time

\* C23: on each tick a running timer that is not newly complete has time
\* replaced by the current time t if and only if |t - time| >= 10 and is
\* otherwise left untouched; after the tick every timer still running has
\* |time - current time| < 10, and a tick in which no timer changes leaves the
\* collection as it was.
C23_TickThreshold ==
    [][last'.op = "tick"
         => /\ \A i \in Indices :
                  (timers[i].isRunning /\ ~C15_Guard(timers[i], now))
                     => timers'[i] =
                          IF Abs(calculateCurrentTime(timers[i], now)
                                    - timers[i].time) >= 10
                          THEN [timers[i] EXCEPT
                                  !.time = calculateCurrentTime(timers[i], now)]
                          ELSE timers[i]
            /\ \A i \in Indices :
                  timers'[i].isRunning
                     => Abs(timers'[i].time
                              - calculateCurrentTime(timers'[i], now)) < 10
            /\ (\A i \in Indices : tickStep(timers[i], now) = timers[i])
                  => timers' = timers
      ]_vars

\* A tick has left a running timer untouched whose current time differs from
\* the time shown by less than the threshold.
C23_Witness ==
    \E i \in Indices :
        /\ last.op = "tick"
        /\ timers[i].isRunning
        /\ calculateCurrentTime(timers[i], now) # timers[i].time

\* C24: on a resume signal (hidden -> visible) every running timer that is
\* not newly complete gets time = the current time whatever the threshold,
\* and every newly complete countdown gets the completion transition; a
\* visibility event that is not a hidden -> visible transition changes no
\* timer and emits no event.
C24_ResumePass ==
    [][/\ last'.op = "resume"
          => /\ lastVisibilityState = "hidden" /\ visibilityState' = "visible"
             /\ \A i \in Indices :
                   IF ~timers[i].isRunning THEN timers'[i] = timers[i]
                   ELSE IF C15_Guard(timers[i], now)
                   THEN /\ timers'[i] = completed(timers[i])
                        /\ seg'[i].fired = seg[i].fired + 1
                   ELSE /\ timers'[i] =
                             [timers[i] EXCEPT
                                !.time = calculateCurrentTime(timers[i], now)]
                        /\ seg'[i].fired = seg[i].fired
       /\ last'.op = "visibility"
          => /\ ~(lastVisibilityState = "hidden" /\ visibilityState' = "visible")
             /\ timers' = timers
             /\ seg' = seg
      ]_vars

\* A resume pass has committed a time that differs from the time at the start
\* by less than the threshold: a countdown of 500 started at 0 shows 495.
C24_Witness ==
    \E i \in Indices :
        /\ last.op = "resume"
        /\ timers[i].isRunning
        /\ timers[i].mode = "countdown"
        /\ timers[i].targetDuration = 500
        /\ timers[i].time = 495
        /\ now = 5

\* C25: in every reachable state a countdown has accumulatedTime 0;
\* accumulatedTime becomes non-zero only by pausing a stopwatch, and a switch
\* to countdown resets it to 0 and sets time = targetDuration.
C25_CountdownAccumulatesNothing ==
    /\ [](\A i \in Indices :
            timers[i].mode = "countdown" => timers[i].accumulatedTime = 0)
    /\ [][\A i \in Indices :
            /\ (Len(timers') = Len(timers) /\ timers[i].accumulatedTime = 0
                   /\ timers'[i].accumulatedTime # 0)
                  => (Addressed("pause", i) /\ timers[i].mode = "stopwatch")
            /\ (Addressed("toggleMode", i) /\ timers[i].mode = "stopwatch")
                  => /\ timers'[i].mode = "countdown"
                     /\ timers'[i].accumulatedTime = 0
                     /\ timers'[i].time = timers[i].targetDuration]_vars

\* A stopwatch that had accumulated time was switched to countdown, started
\* and paused: it has run as a countdown and its accumulatedTime is 0.
C25_Witness ==
    \E i \in Indices :
        /\ isPaused(timers[i])
        /\ timers[i].mode = "countdown"
        /\ timers[i].time > 0
        /\ timers[i].time < timers[i].targetDuration
        /\ timers[i].accumulatedTime = 0

HistoryOps == {"addEntry", "deleteEntry", "clearHistory"}

\* C27: the calculation history is saved whenever it changes: after addEntry,
\* deleteEntry or clearHistory on a hydrated instance the list persisted under
\* chemlab_history equals that instance's history (an empty history meaning
\* no stored entries), so that a reload restores the entries last shown.
C27_HistoryPersisted ==
    [][last'.op \in HistoryOps
         => /\ isHydrated[last'.id]
            /\ loadHistoryFromStorage' = history'[last'.id]
      ]_vars

\* The entries of the list persisted under chemlab_history.
Persisted == {storage[1][k] : k \in 1..Len(loadHistoryFromStorage)}

\* C30: entries recorded through one instance are never lost through the
\* activity of another: whatever the interleaving of the instances' calls,
\* chemlab_history holds every entry added by any instance and neither
\* deleted nor cleared since (fewer than 20 entries are ever added).
C30_NoEntryLost == live \subseteq Persisted

FrameOps == ToggleOps \cup IdleOps

\* The collection without its k-th timer.
Without(k) ==
    [m \in 1..(Len(timers) - 1) |-> IF m < k THEN timers[m] ELSE timers[m + 1]]

\* C26: timers run independently: a user operation on one timer (start,
\* pause, reset, zero, setTargetDuration, setPreset, toggleMode) leaves every
\* other timer of the collection unchanged, delete removes that one timer and
\* keeps the others in their order, and ticks and resume passes leave every
\* non-running timer unchanged.
C26_TimersIndependent ==
    [][/\ last'.op \in FrameOps
          => \E k \in Indices :
                /\ timers[k].id = last'.id
                /\ Len(timers') = Len(timers)
                /\ \A j \in Indices \ {k} : timers'[j] = timers[j]
       /\ last'.op = "delete"
          => \E k \in Indices :
                /\ timers[k].id = last'.id
                /\ timers' = Without(k)
       /\ last'.op \in PassOps
          => /\ Len(timers') = Len(timers)
             /\ \A i \in Indices :
                   ~timers[i].isRunning => timers'[i] = timers[i]
      ]_vars

\* The clock of SpecLive reaches the end time of the timer, if it has one.
C28_CanReachEnd(timer) ==
    timer.endTime # Null => \E t \in StoreClockValues : t >= timer.endTime[1]

\* C28: with a scheduler that keeps ticking and a clock that keeps advancing,
\* every running countdown eventually stops running, by completion or by a
\* user operation, also after setTargetDuration was applied while it ran: no
\* countdown runs without ever being able to complete.
C28_RunningCountdownStops ==
    (/\ timers[1].isRunning
     /\ timers[1].mode = "countdown"
     /\ C28_CanReachEnd(timers[1]))
        ~> ~timers[1].isRunning

\* C29: with non-negative duration inputs every countdown has
\* 0 <= time <= targetDuration in every reachable state, and the time of a
\* running countdown never increases across ticks and resume passes.
C29_CountdownWithinTarget ==
    /\ [](\A i \in Indices :
            timers[i].mode = "countdown"
               => (0 <= timers[i].time
                     /\ timers[i].time <= timers[i].targetDuration))
    /\ [][\A i \in Indices :
            (last'.op \in PassOps /\ timers[i].mode = "countdown")
               => timers'[i].time <= timers[i].time]_vars

\* A pass has lowered the time of a running countdown below its target.
C29_Witness ==
    \E i \in Indices :
        /\ last.op \in PassOps
        /\ timers[i].isRunning
        /\ timers[i].mode = "countdown"
        /\ timers[i].time > 0
        /\ timers[i].time < timers[i].targetDuration

====
